---- MODULE Spec2Model ----
(***************************************************************************)
(* fast-rm: the two-pool delete pipeline.                                  *)
(*   scanner.rs  scan_path / scan_directory  (rayon workers, fork-join)    *)
(*   queue.rs    AdaptiveQueue               (bounded channel + counters)  *)
(*   deleter.rs  delete_worker / delete_*    (consumer threads)            *)
(*   progress.rs RemoveProgress              (scanned/deleted/errors)      *)
(* Atomics are modelled sequentially consistent; every load and every      *)
(* fetch_add is a step of its own where another thread can observe the     *)
(* state in between.                                                       *)
(***************************************************************************)
EXTENDS Integers, Sequences, FiniteSets, TLC

\* ------------------------------------------------------------------ bounds
ScanThreads == 2
DeleteThreads == 2
QueueCapacity == 2
QClients == 2
MaxQueueOps == 4
MaxPaths == 3
IncrementsPerThread == 2
MaxReads == 2

\* ------------------------------------------------- the file-system universe
\* The objects a run can meet, numbered 1..5, and the path of each:
\*   1 /a    2 /a/bc    3 /a/b    4 /a/b/g    5 /t
Paths == 1..5
PathName == <<(<<"a">>), <<"a", "bc">>, <<"a", "b">>, <<"a", "b", "g">>,
              (<<"t">>)>>

\* where the symbolic link at /a/bc points, when /a/bc is one
LinkTarget == <<0, 5, 0, 0, 0>>

\* A node is one scan_path call. Nodes 1..5 are the calls on the objects
\* 1..5: 1 and 5 as input roots, 2 and 3 as entries of 1, 4 as an entry of
\* 3. Node 6 is the call on /a/b as an input root of its own, and node 7
\* the call on its entry /a/b/g.
Nodes == 1..7
Parent == <<0, 1, 1, 3, 0, 0, 6>>

\* scan_path's `path` argument
PathOf == <<1, 2, 3, 4, 5, 3, 4>>

ChildrenOf(n) == {c \in Nodes : Parent[c] = n}

RECURSIVE IsDescendant(_, _)
IsDescendant(c, a) ==
    IF Parent[c] = 0 THEN FALSE
    ELSE IF Parent[c] = a THEN TRUE
    ELSE IsDescendant(Parent[c], a)

\* A world: what is on disk before the run, which syscalls will fail, and
\* (roots) the nodes of the paths the user names on the command line.
World(k, r, mf, rf, ef, uf) ==
    [kind |-> k, roots |-> r, metaFail |-> mf, readdirFail |-> rf,
     entryFail |-> ef, unlinkFail |-> uf]

\* root/{file, sub/{file}}
NestedTree ==
    World(<<"dir", "file", "dir", "file", "none">>, {1}, {}, {}, {}, {})

\* two input roots: root/{symlink} and a file
TwoRoots ==
    World(<<"dir", "symlink", "none", "none", "file">>, {1, 5}, {}, {}, {}, {})

\* root/{fifo, sub/{file}}
FifoTree ==
    World(<<"dir", "other", "dir", "file", "none">>, {1}, {}, {}, {}, {})

\* root/{file, sub/{file}}, symlink_metadata fails on root/sub/file
MetaFailTree ==
    World(<<"dir", "file", "dir", "file", "none">>, {1}, {4}, {}, {}, {})

\* root/{file, sub/}, read_dir fails on root/sub
ReadDirFailTree ==
    World(<<"dir", "file", "dir", "none", "none">>, {1}, {}, {3}, {}, {})

\* root/{file}, the ReadDir of root yields one Err entry
BadEntryTree ==
    World(<<"dir", "file", "none", "none", "none">>, {1}, {}, {}, {1}, {})

\* two input roots: root/{file} and a file; unlink of root/file fails
UnlinkFailTree ==
    World(<<"dir", "file", "none", "none", "file">>, {1, 5}, {}, {}, {}, {2})

\* root/{symlink -> /t}; /t is a file outside the tree
SymlinkTree ==
    World(<<"dir", "symlink", "none", "none", "file">>, {1}, {}, {}, {}, {})

\* the link /a/bc -> /t is given as the input root
SymlinkRoot ==
    World(<<"dir", "symlink", "none", "none", "file">>, {2}, {}, {}, {}, {})

\* /a and /a/b both given as input roots
OverlapRoots ==
    World(<<"dir", "file", "dir", "file", "none">>, {1, 6}, {}, {}, {}, {})

\* root/sub/sub2/, three directories deep
DeepTree ==
    World(<<"dir", "none", "dir", "dir", "none">>, {1}, {}, {}, {}, {})

Worlds ==
    {NestedTree, TwoRoots, FifoTree, MetaFailTree, ReadDirFailTree,
     BadEntryTree, UnlinkFailTree, SymlinkTree, SymlinkRoot, OverlapRoots,
     DeepTree}

\* the trees of the fair specification
FairWorlds == {NestedTree, TwoRoots, ReadDirFailTree, BadEntryTree}

VARIABLES
    world,          \* the tree and its failures (fixed during a run)
    dry_run,        \* RemoveConfig.dry_run
    continue_on_error, \* RemoveConfig.continue_on_error
    exists,         \* the objects currently on disk
    stack,          \* call stack of scan_path frames of each rayon worker
    scanPc,         \* position of scan_path(n)
    results,        \* value returned by scan_path(n)
    badLeft,        \* failing entries the ReadDir of n has still to yield
    entryErrs,      \* Err(DirEntryFailed) items collected by scan_directory(n)
    chan,           \* the crossbeam bounded channel
    enqueued,       \* AdaptiveQueue.enqueued
    dequeued,       \* AdaptiveQueue.dequeued
    scanned,        \* RemoveProgress.scanned
    deleted,        \* RemoveProgress.deleted
    errors,         \* RemoveProgress.errors
    scanners_done,  \* the AtomicBool handed to delete_worker
    dpc,            \* position of each delete_worker
    djob,           \* the job a delete_worker holds
    dEnq,           \* depth(): the value loaded from enqueued
    sentLog,        \* history: jobs in the order they entered the channel
    recvLog,        \* history: jobs in the order they left the channel
    acted,          \* history: how many times a job for n was acted on
    outcome,        \* history: result of the last delete_* on n
    syscalls,       \* history: unlink / rmdir calls issued on n
    sawTransientEmpty, \* history: a worker timed out before scanners_done
    qpc,            \* queue harness: position of each client
    okSends,        \* queue harness: send/try_send calls that returned Ok
    okRecvs,        \* queue harness: recv calls that returned Ok
    qres,           \* queue harness: what the last call of each client returned
    sanPc,          \* position of deduplicate_and_check_paths
    sanInput,       \* its `paths` argument
    sanResult,      \* the Result it returned
    rmCount,        \* single pool: the count fast_remove(n) returned in Ok
    exit_status,    \* single pool: the status the process exited with
    recent_len,     \* messages held by the recent-files channel
    error_len,      \* messages held by the error channel
    ppc,            \* progress harness: position of each client
    pcalls,         \* progress harness: inc_* calls that returned, per counter
    ptodo,          \* progress harness: calls each client has still to make
    preads          \* progress harness: messages the reader has taken

vars == <<world, dry_run, continue_on_error, exists, stack, scanPc, results,
          badLeft, entryErrs, chan, enqueued, dequeued, scanned, deleted,
          errors, scanners_done, dpc, djob, dEnq, sentLog, recvLog, acted,
          outcome, syscalls, sawTransientEmpty, qpc, okSends, okRecvs,
          qres, sanPc, sanInput, sanResult, rmCount, exit_status,
          recent_len, error_len, ppc, pcalls, ptodo, preads>>

fsVars == <<world, dry_run, continue_on_error>>
scanVars == <<stack, scanPc, results, badLeft, entryErrs>>
delVars == <<dpc, djob, dEnq>>
harnessVars == <<qpc, okSends, okRecvs, qres>>
sanVars == <<sanPc, sanInput, sanResult>>
rmVars == <<rmCount, exit_status>>
sampleVars == <<recent_len, error_len>>
progVars == <<ppc, pcalls, ptodo, preads>>

Workers == 1..ScanThreads
Deleters == 1..DeleteThreads
Clients == 1..QClients

NoJob == [tag |-> "None", path |-> 0]

\* -------------------------------------------------------------- path.rs
\* Path::canonicalize: Err when nothing is at the path (also when a link
\* dangles), the path of the target for a symbolic link, the path itself
\* for anything else.
ObjectAt(p) == CHOOSE o \in Paths : PathName[o] = p

canonicalize(p) ==
    LET o == ObjectAt(p) IN
    IF world.kind[o] = "none" THEN [ok |-> FALSE, path |-> p]
    ELSE IF world.kind[o] = "symlink"
         THEN (IF world.kind[LinkTarget[o]] = "none"
               THEN [ok |-> FALSE, path |-> p]
               ELSE [ok |-> TRUE, path |-> PathName[LinkTarget[o]]])
    ELSE [ok |-> TRUE, path |-> p]

\* variant: the path is used as given
CanonicalOrOriginal_AsGiven(p) == p

\* lines 13-27: the canonical form, or the original path on Err
CanonicalOrOriginal(p) ==
    IF canonicalize(p).ok THEN canonicalize(p).path ELSE p

\* lines 15 and 22: seen.contains; seen holds what canonical_paths holds
SeenContains(acc, c) == \E i \in 1..Len(acc) : acc[i] = c

\* lines 12-28: the first loop, acc is canonical_paths
RECURSIVE CanonicalPaths(_, _)
CanonicalPaths(paths, acc) ==
    IF paths = <<>> THEN acc
    ELSE LET c == CanonicalOrOriginal(Head(paths)) IN
         CanonicalPaths(Tail(paths),
                        IF SeenContains(acc, c) THEN acc ELSE Append(acc, c))

\* variant: nothing counts as a prefix
starts_with_Never(p, q) == FALSE

\* variant: str::starts_with on the path strings, where the last component
\* of q need only be the beginning of a component of p ("b" of "bc")
starts_with_String(p, q) ==
    /\ q # <<>>
    /\ Len(q) <= Len(p)
    /\ SubSeq(p, 1, Len(q) - 1) = SubSeq(q, 1, Len(q) - 1)
    /\ \/ p[Len(q)] = q[Len(q)]
       \/ q[Len(q)] = "b" /\ p[Len(q)] = "bc"

\* Path::starts_with: q is a prefix of p, component by component
starts_with(p, q) == Len(q) <= Len(p) /\ SubSeq(p, 1, Len(q)) = q

\* variant: the second starts_with test (line 40) is missing
HasOverlap_OneWay(cp) ==
    \E i \in 1..Len(cp) : \E j \in (i + 1)..Len(cp) :
        starts_with(cp[i], cp[j])

\* lines 30-47: some pair i < j where one path starts with the other
HasOverlap(cp) ==
    \E i \in 1..Len(cp) : \E j \in (i + 1)..Len(cp) :
        starts_with(cp[i], cp[j]) \/ starts_with(cp[j], cp[i])

PathOverlap == [ok |-> FALSE, paths |-> <<>>]

deduplicate_and_check_paths(paths) ==
    LET cp == CanonicalPaths(paths, <<>>) IN
    IF HasOverlap(cp) THEN PathOverlap ELSE [ok |-> TRUE, paths |-> cp]

\* the paths the user gave for the input roots, in the order of the nodes
RECURSIVE RootArgs(_)
RootArgs(R) ==
    IF R = {} THEN <<>>
    ELSE LET r == CHOOSE x \in R : \A y \in R : x <= y IN
         <<PathName[PathOf[r]]>> \o RootArgs(R \ {r})

\* main, lines 547-553: the run goes on only with Ok(paths), and these are
\* the roots it works on
SanitizedRoots ==
    /\ sanPc = "done"
    /\ sanInput = RootArgs(world.roots)
    /\ sanResult = deduplicate_and_check_paths(sanInput)
    /\ sanResult.ok
    /\ \A i \in 1..Len(sanResult.paths) :
          \E n \in Nodes : Parent[n] = 0 /\ PathName[PathOf[n]] = sanResult.paths[i]

\* main, line 588: the scan_path calls made on the sanitized paths
Roots ==
    {n \in Nodes :
        /\ Parent[n] = 0
        /\ \E i \in 1..Len(sanResult.paths) :
              PathName[PathOf[n]] = sanResult.paths[i]}

\* ------------------------------------------------------------- queue.rs
\* FileJob: the variant scan_path builds for an object of kind k.
FileJob(k, n) ==
    [tag |-> CASE k = "symlink" -> "Symlink"
               [] k = "file" -> "File"
               [] OTHER -> "EmptyDir",
     path |-> n]

\* usize::saturating_sub
saturating_sub(a, b) == IF a >= b THEN a - b ELSE 0

\* AdaptiveQueue::depth on the two loaded values
depth(e, d) == saturating_sub(e, d)

\* variant: the comparison is reversed
is_empty_Reversed(e, d) == d > e

\* variant: the queue always counts as drained
is_empty_Always(e, d) == TRUE

\* AdaptiveQueue::is_empty on the two loaded values
is_empty(e, d) == depth(e, d) = 0

\* variant: send and try_send do not count the job
SendIncrement_Missing == 1 - 1

\* the amount send / try_send add to the enqueued counter
SendIncrement == 1

\* variant: a receive is counted twice
RecvIncrement_Twice == 1 + 1

\* the amount recv / try_recv / recv_timeout add to the dequeued counter
RecvIncrement == 1

\* crossbeam bounded channel: a send completes only below capacity
ChanHasRoom_Unbounded(ch) == TRUE

ChanHasRoom(ch) == Len(ch) < QueueCapacity

\* variant: the newest message is received first
RecvIndex_Lifo(ch) == Len(ch)

\* crossbeam bounded channel: the position a receive takes its message from
RecvIndex(ch) == 1

ChanTake(ch) == ch[RecvIndex(ch)]

ChanRest(ch) ==
    [i \in 1..(Len(ch) - 1) |-> IF i < RecvIndex(ch) THEN ch[i] ELSE ch[i + 1]]


\* ----------------------------------------------------------- progress.rs
\* RemoveProgress::new, line 37: bounded(1000)
RecentCapacity == 1000

\* RemoveProgress::new, line 38: bounded(100)
ErrorCapacity == 100

\* variant: the counter is overwritten with the increment
fetch_add_Store(v, n) == n

\* AtomicUsize::fetch_add: one indivisible read-modify-write
fetch_add(v, n) == v + n

\* variant: the sample is queued whatever the channel holds
try_send_Unbounded(len, cap) == len + 1

\* Sender::try_send on a bounded channel: the message is queued when there
\* is room and dropped (Err(Full), discarded by `let _ =`) when there is not
try_send(len, cap) == IF len < cap THEN len + 1 ELSE len

\* variant: Sender::send, which waits for room
try_send_returns_Blocking(len, cap) == len < cap

\* Sender::try_send returns at once, full channel or not
try_send_returns(len, cap) == TRUE

\* ------------------------------------------------------------ scanner.rs
Top(w) == stack[w][Len(stack[w])]

Pop(w) == SubSeq(stack[w], 1, Len(stack[w]) - 1)

\* what is at the path of scan_path call n before the run
KindOf(n) == world.kind[PathOf[n]]

\* variant: symbolic links are left out of the listing
Entries_NoLinks(n) == {c \in ChildrenOf(n) : KindOf(c) \notin {"none", "symlink"}}

\* the entries fs::read_dir(n) yields as Ok(entry)
Entries(n) == {c \in ChildrenOf(n) : KindOf(c) # "none"}

\* A rayon worker runs a new scan_path call when it has nothing to run, or
\* when the frame on top of its stack is inside par_bridge().collect().
CanTake(w) == IF stack[w] = <<>> THEN TRUE ELSE scanPc[Top(w)] = "iter"

\* scan_path(c) has not been called yet and its caller is handing it out:
\* the driver for an input root, scan_directory(Parent[c]) for an entry.
Offered(c) ==
    /\ scanPc[c] = "idle"
    /\ \/ c \in Roots /\ ~scanners_done
       \/ Parent[c] # 0 /\ c \in Entries(Parent[c]) /\ scanPc[Parent[c]] = "iter"

\* variant: fs::metadata, which describes the target of a symbolic link
MetaKind_Follow(c) ==
    IF KindOf(c) = "symlink" THEN world.kind[LinkTarget[PathOf[c]]]
    ELSE KindOf(c)

\* scan_path, line 26: fs::symlink_metadata describes the object at the
\* path itself
MetaKind(c) == KindOf(c)

\* scan_path, lines 20-50: what the call does with the metadata it gets.
\* "job": a job is to be sent; "dir": scan_directory iterates; "err": Err.
Classify(c) ==
    IF PathOf[c] \in world.metaFail \/ PathOf[c] \notin exists THEN "err"
    ELSE IF MetaKind(c) \in {"symlink", "file"} THEN "job"
    ELSE IF MetaKind(c) = "dir"
         THEN (IF PathOf[c] \in world.readdirFail THEN "err" ELSE "dir")
    ELSE "err"

\* scan_path: inc_scanned, symlink_metadata, classification, read_dir
ScanCall(w, c) ==
    /\ CanTake(w)
    /\ Offered(c)
    /\ scanned' = fetch_add(scanned, 1)
    /\ CASE Classify(c) = "err" ->
              /\ scanPc' = [scanPc EXCEPT ![c] = "ret"]
              /\ results' = [results EXCEPT ![c] = "err"]
              /\ UNCHANGED stack
         [] Classify(c) = "job" ->
              /\ scanPc' = [scanPc EXCEPT ![c] = "enq"]
              /\ stack' = [stack EXCEPT ![w] = Append(@, c)]
              /\ UNCHANGED results
         [] OTHER ->
              /\ scanPc' = [scanPc EXCEPT ![c] = "iter"]
              /\ stack' = [stack EXCEPT ![w] = Append(@, c)]
              /\ UNCHANGED results
    /\ UNCHANGED <<fsVars, sanVars, rmVars, sampleVars, progVars,
                   exists, badLeft, entryErrs, chan, enqueued,
                   dequeued, deleted, errors, scanners_done, delVars,
                   sentLog, recvLog, acted, outcome, syscalls, sawTransientEmpty,
                   harnessVars>>

\* scan_directory, lines 69-77: the iterator yields Err for an entry
ScanBadEntry(w, n) ==
    /\ CanTake(w)
    /\ scanPc[n] = "iter"
    /\ badLeft[n] > 0
    /\ badLeft' = [badLeft EXCEPT ![n] = @ - 1]
    /\ entryErrs' = [entryErrs EXCEPT ![n] = @ + 1]
    /\ errors' = fetch_add(errors, 1)
    /\ error_len' = try_send(error_len, ErrorCapacity)
    /\ UNCHANGED <<fsVars, sanVars, rmVars, recent_len, progVars,
                   exists, stack, scanPc, results, chan, enqueued,
                   dequeued, scanned, deleted, scanners_done, delVars,
                   sentLog, recvLog, acted, outcome, syscalls, sawTransientEmpty,
                   harnessVars>>

\* variant: collect() returns as soon as the iterator is exhausted
ChildrenCollected_NoWait(n) == badLeft[n] = 0

\* variant: collect() stops at the first Err item
ChildrenCollected_StopAtError(n) ==
    \/ entryErrs[n] > 0
    \/ \E c \in ChildrenOf(n) : results[c] = "err"
    \/ /\ badLeft[n] = 0
       /\ \A c \in ChildrenOf(n) : KindOf(c) # "none" => scanPc[c] = "ret"

\* scan_directory, line 79: collect() returns once the iterator is exhausted
\* and every scan_path call on an entry has returned.
ChildrenCollected(n) ==
    /\ badLeft[n] = 0
    /\ \A c \in Entries(n) : scanPc[c] = "ret"

\* scan_directory, line 82: the Err items among the collected results
HasErrors(n) ==
    \/ entryErrs[n] > 0
    \/ \E c \in Entries(n) : results[c] = "err"

\* variant: continue_on_error is not consulted
Propagates_Always(n) == HasErrors(n)

\* variant: the collected errors are dropped
Propagates_Never(n) == FALSE

\* scan_directory, line 83: the first error is returned
Propagates(n) == HasErrors(n) /\ ~continue_on_error

\* scan_directory, lines 79-87, and the `?` of scan_path line 41
ScanCollect(w) ==
    /\ stack[w] # <<>>
    /\ scanPc[Top(w)] = "iter"
    /\ ChildrenCollected(Top(w))
    /\ IF Propagates(Top(w))
       THEN /\ scanPc' = [scanPc EXCEPT ![Top(w)] = "ret"]
            /\ results' = [results EXCEPT ![Top(w)] = "err"]
            /\ stack' = [stack EXCEPT ![w] = Pop(w)]
       ELSE /\ scanPc' = [scanPc EXCEPT ![Top(w)] = "enq"]
            /\ UNCHANGED <<results, stack>>
    /\ UNCHANGED <<fsVars, sanVars, rmVars, sampleVars, progVars,
                   exists, badLeft, entryErrs, chan, enqueued,
                   dequeued, scanned, deleted, errors, scanners_done,
                   delVars, sentLog, recvLog, acted, outcome, syscalls,
                   sawTransientEmpty, harnessVars>>

\* AdaptiveQueue::send, line 42: enqueued.fetch_add
ScanEnqueue(w) ==
    /\ stack[w] # <<>>
    /\ scanPc[Top(w)] = "enq"
    /\ enqueued' = enqueued + SendIncrement
    /\ scanPc' = [scanPc EXCEPT ![Top(w)] = "snd"]
    /\ UNCHANGED <<fsVars, sanVars, rmVars, sampleVars, progVars,
                   exists, stack, results, badLeft, entryErrs, chan,
                   dequeued, scanned, deleted, errors, scanners_done,
                   delVars, sentLog, recvLog, acted, outcome, syscalls,
                   sawTransientEmpty, harnessVars>>

\* AdaptiveQueue::send, line 43: sender.send blocks while the channel is
\* full; scan_path then returns Ok(()).
ScanSend(w) ==
    /\ stack[w] # <<>>
    /\ scanPc[Top(w)] = "snd"
    /\ ChanHasRoom(chan)
    /\ chan' = Append(chan, FileJob(MetaKind(Top(w)), PathOf[Top(w)]))
    /\ sentLog' = Append(sentLog, FileJob(MetaKind(Top(w)), PathOf[Top(w)]))
    /\ scanPc' = [scanPc EXCEPT ![Top(w)] = "ret"]
    /\ results' = [results EXCEPT ![Top(w)] = "ok"]
    /\ stack' = [stack EXCEPT ![w] = Pop(w)]
    /\ UNCHANGED <<fsVars, sanVars, rmVars, sampleVars, progVars,
                   exists, badLeft, entryErrs, enqueued, dequeued,
                   scanned, deleted, errors, scanners_done, delVars,
                   recvLog, acted, outcome, syscalls, sawTransientEmpty, harnessVars>>

\* ------------------------------------------------------------ orchestrator
AllScannersReturned == \A r \in Roots : scanPc[r] = "ret"

\* the driver joins the scanner pool, then raises the flag
SetScannersDone ==
    /\ ~scanners_done
    /\ Roots # {}
    /\ AllScannersReturned
    /\ scanners_done' = TRUE
    /\ UNCHANGED <<fsVars, sanVars, rmVars, sampleVars, progVars,
                   exists, scanVars, chan, enqueued, dequeued,
                   scanned, deleted, errors, delVars, sentLog, recvLog,
                   acted, outcome, syscalls, sawTransientEmpty, harnessVars>>

\* ------------------------------------------------------------ deleter.rs
\* delete_worker, line 18: recv_timeout returns Ok(job); the job has left
\* the channel, the dequeued counter is not yet incremented.
DeleterRecv(d) ==
    /\ dpc[d] = "recv"
    /\ chan # <<>>
    /\ djob' = [djob EXCEPT ![d] = ChanTake(chan)]
    /\ recvLog' = Append(recvLog, ChanTake(chan))
    /\ chan' = ChanRest(chan)
    /\ dpc' = [dpc EXCEPT ![d] = "count"]
    /\ UNCHANGED <<fsVars, sanVars, rmVars, sampleVars, progVars,
                   exists, scanVars, enqueued, dequeued, scanned,
                   deleted, errors, scanners_done, dEnq, sentLog, acted,
                   outcome, syscalls, sawTransientEmpty, harnessVars>>

\* AdaptiveQueue::recv_timeout, line 72: dequeued.fetch_add
DeleterCount(d) ==
    /\ dpc[d] = "count"
    /\ dequeued' = dequeued + RecvIncrement
    /\ dpc' = [dpc EXCEPT ![d] = "act"]
    /\ UNCHANGED <<fsVars, sanVars, rmVars, sampleVars, progVars,
                   exists, scanVars, chan, enqueued, scanned,
                   deleted, errors, scanners_done, djob, dEnq, sentLog,
                   recvLog, acted, outcome, syscalls, sawTransientEmpty, harnessVars>>

\* fs::remove_file succeeds
RemoveFileOk(n) == n \in exists /\ n \notin world.unlinkFail

\* fs::remove_dir succeeds only on an empty directory
RemoveDirOk(n) == n \in exists /\ ChildrenOf(n) \cap exists = {}

\* the syscall of delete_file / delete_symlink / delete_empty_dir succeeds
SyscallOk(job) ==
    IF job.tag = "EmptyDir" THEN RemoveDirOk(job.path)
    ELSE RemoveFileOk(job.path)

\* how many times a delete_* function issues its syscall for one job
SyscallAttempts == 1

\* variant: the dry_run test is missing
SyscallSkipped_Never == FALSE

\* delete_file line 62, delete_symlink line 90, delete_empty_dir line 118:
\* `if !config.dry_run` around the syscall
SyscallSkipped == dry_run

\* variant: the worker leaves its loop when a delete_* call returned Err
AfterJob_StopOnError(ok) == IF ok THEN "recv" ELSE "exit"

\* delete_worker, lines 27-35: the Err of a delete_* call is at most
\* printed, and the loop goes on with the next recv_timeout
AfterJob(ok) == "recv"

\* delete_worker, lines 20-35: delete_file / delete_symlink /
\* delete_empty_dir with their inc_deleted / inc_error; a failure is
\* swallowed and the loop goes on.
DeleterAct(d) ==
    /\ dpc[d] = "act"
    /\ IF SyscallSkipped
       THEN /\ deleted' = fetch_add(deleted, 1)
            /\ recent_len' = try_send(recent_len, RecentCapacity)
            /\ outcome' = [outcome EXCEPT ![djob[d].path] = "deleted"]
            /\ UNCHANGED <<exists, errors, error_len>>
       ELSE IF SyscallOk(djob[d])
       THEN /\ exists' = exists \ {djob[d].path}
            /\ deleted' = fetch_add(deleted, 1)
            /\ recent_len' = try_send(recent_len, RecentCapacity)
            /\ outcome' = [outcome EXCEPT ![djob[d].path] = "deleted"]
            /\ UNCHANGED <<errors, error_len>>
       ELSE /\ errors' = fetch_add(errors, 1)
            /\ error_len' = try_send(error_len, ErrorCapacity)
            /\ outcome' = [outcome EXCEPT ![djob[d].path] =
                   IF djob[d].tag = "EmptyDir" /\ ChildrenOf(djob[d].path) \cap exists # {}
                   THEN "notempty" ELSE "error"]
            /\ UNCHANGED <<exists, deleted, recent_len>>
    /\ acted' = [acted EXCEPT ![djob[d].path] = @ + 1]
    /\ syscalls' = [syscalls EXCEPT ![djob[d].path] =
                       IF SyscallSkipped THEN @ ELSE @ + SyscallAttempts]
    /\ djob' = [djob EXCEPT ![d] = NoJob]
    /\ dpc' = [dpc EXCEPT ![d] =
                 AfterJob(SyscallSkipped \/ SyscallOk(djob[d]))]
    /\ UNCHANGED <<fsVars, sanVars, rmVars, progVars,
                   scanVars, chan, enqueued, dequeued, scanned,
                   scanners_done, dEnq, sentLog, recvLog, sawTransientEmpty,
                   harnessVars>>

\* delete_worker, line 37: recv_timeout returns Err(Timeout); the channel
\* held no message during the 100 ms.
DeleterTimeout(d) ==
    /\ dpc[d] = "recv"
    /\ chan = <<>>
    /\ dpc' = [dpc EXCEPT ![d] = "chk"]
    /\ sawTransientEmpty' = (sawTransientEmpty \/ (~scanners_done /\ sentLog # <<>>))
    /\ UNCHANGED <<fsVars, sanVars, rmVars, sampleVars, progVars,
                   exists, scanVars, chan, enqueued, dequeued,
                   scanned, deleted, errors, scanners_done, djob, dEnq,
                   sentLog, recvLog, acted, outcome, syscalls, harnessVars>>

\* variant: the flag is not consulted
ScannersDoneLoad_Ignored == TRUE

\* delete_worker, line 39: the value of scanners_done.load(Relaxed)
ScannersDoneLoad == scanners_done

\* delete_worker, line 39, left operand of && (is_empty is not called when
\* the flag is false)
DeleterCheckDone(d) ==
    /\ dpc[d] = "chk"
    /\ dpc' = [dpc EXCEPT ![d] = IF ScannersDoneLoad THEN "ldenq" ELSE "recv"]
    /\ UNCHANGED <<fsVars, sanVars, rmVars, sampleVars, progVars,
                   exists, scanVars, chan, enqueued, dequeued,
                   scanned, deleted, errors, scanners_done, djob, dEnq,
                   sentLog, recvLog, acted, outcome, syscalls, sawTransientEmpty,
                   harnessVars>>

\* AdaptiveQueue::depth, line 78: enqueued.load
DeleterLoadEnqueued(d) ==
    /\ dpc[d] = "ldenq"
    /\ dEnq' = [dEnq EXCEPT ![d] = enqueued]
    /\ dpc' = [dpc EXCEPT ![d] = "lddeq"]
    /\ UNCHANGED <<fsVars, sanVars, rmVars, sampleVars, progVars,
                   exists, scanVars, chan, enqueued, dequeued,
                   scanned, deleted, errors, scanners_done, djob, sentLog,
                   recvLog, acted, outcome, syscalls, sawTransientEmpty, harnessVars>>

\* AdaptiveQueue::depth, lines 79-80, is_empty, and the break of line 40
DeleterLoadDequeued(d) ==
    /\ dpc[d] = "lddeq"
    /\ dpc' = [dpc EXCEPT ![d] =
                 IF is_empty(dEnq[d], dequeued) THEN "exit" ELSE "recv"]
    /\ dEnq' = [dEnq EXCEPT ![d] = 0]
    /\ UNCHANGED <<fsVars, sanVars, rmVars, sampleVars, progVars,
                   exists, scanVars, chan, enqueued, dequeued,
                   scanned, deleted, errors, scanners_done, djob, sentLog,
                   recvLog, acted, outcome, syscalls, sawTransientEmpty, harnessVars>>

\* ------------------------------------------------------------- the pipeline
QueueInit ==
    /\ chan = <<>>
    /\ enqueued = 0
    /\ dequeued = 0

\* the process has not exited
Running == 0 - 1

\* RemoveProgress::new: counters at zero, both channels empty
ProgressInit ==
    /\ scanned = 0
    /\ deleted = 0
    /\ errors = 0
    /\ recent_len = 0
    /\ error_len = 0

Counters == {"scanned", "deleted", "errors"}

\* fast_remove is not running
RmOff ==
    /\ rmCount = [n \in Nodes |-> 0]
    /\ exit_status = Running

\* no client calls RemoveProgress on its own
ProgressOff ==
    /\ ppc = [c \in Clients |-> "off"]
    /\ pcalls = [k \in Counters |-> 0]
    /\ ptodo = [c \in Clients |-> 0]
    /\ preads = 0

\* the state before a run in which the delete workers of `active` are started
PipelineInit(active) ==
    /\ world \in Worlds
    /\ SanitizedRoots
    /\ dry_run \in BOOLEAN
    /\ continue_on_error \in BOOLEAN
    /\ exists = {p \in Paths : world.kind[p] # "none"}
    /\ stack = [w \in Workers |-> <<>>]
    /\ scanPc = [n \in Nodes |-> "idle"]
    /\ results = [n \in Nodes |-> "none"]
    /\ badLeft = [n \in Nodes |->
                    IF PathOf[n] \in world.entryFail THEN 1 ELSE 0]
    /\ entryErrs = [n \in Nodes |-> 0]
    /\ QueueInit
    /\ ProgressInit
    /\ scanners_done = FALSE
    /\ dpc = [d \in Deleters |-> IF d \in active THEN "recv" ELSE "off"]
    /\ djob = [d \in Deleters |-> NoJob]
    /\ dEnq = [d \in Deleters |-> 0]
    /\ sentLog = <<>>
    /\ recvLog = <<>>
    /\ acted = [n \in Nodes |-> 0]
    /\ outcome = [n \in Nodes |-> "none"]
    /\ syscalls = [n \in Nodes |-> 0]
    /\ sawTransientEmpty = FALSE
    /\ RmOff
    /\ ProgressOff
    /\ qpc = [c \in Clients |-> "off"]
    /\ okSends = 0
    /\ okRecvs = 0
    /\ qres = [c \in Clients |-> "none"]

Init == PipelineInit(Deleters)

Next ==
    \/ \E w \in Workers, c \in Nodes : ScanCall(w, c)
    \/ \E w \in Workers, n \in Nodes : ScanBadEntry(w, n)
    \/ \E w \in Workers : ScanCollect(w)
    \/ \E w \in Workers : ScanEnqueue(w)
    \/ \E w \in Workers : ScanSend(w)
    \/ SetScannersDone
    \/ \E d \in Deleters : DeleterRecv(d)
    \/ \E d \in Deleters : DeleterCount(d)
    \/ \E d \in Deleters : DeleterAct(d)
    \/ \E d \in Deleters : DeleterTimeout(d)
    \/ \E d \in Deleters : DeleterCheckDone(d)
    \/ \E d \in Deleters : DeleterLoadEnqueued(d)
    \/ \E d \in Deleters : DeleterLoadDequeued(d)

Spec == Init /\ [][Next]_vars

\* a run with a single delete worker, as in test_delete_worker_basic
OneDeleterInit == PipelineInit({1})

OneDeleterSpec == OneDeleterInit /\ [][Next]_vars

AllDeletersExited == \A d \in Deleters : dpc[d] = "exit"

RunEnded == scanners_done /\ AllDeletersExited

\* ------------------------------------------- queue.rs called on its own
\* Clients call the operations of one AdaptiveQueue in any order, as the
\* unit tests of queue.rs do; the pipeline is not running.
HarnessJob(c) == [tag |-> "File", path |-> c]

\* AdaptiveQueue::send, line 42
QSendBegin(c) ==
    /\ qpc[c] = "idle"
    /\ enqueued < MaxQueueOps
    /\ enqueued' = enqueued + SendIncrement
    /\ qpc' = [qpc EXCEPT ![c] = "send"]
    /\ UNCHANGED <<fsVars, sanVars, rmVars, sampleVars, progVars,
                   exists, scanVars, chan, dequeued, scanned,
                   deleted, errors, scanners_done, delVars, sentLog,
                   recvLog, acted, outcome, syscalls, sawTransientEmpty, okSends,
                   okRecvs, qres>>

\* AdaptiveQueue::send, line 43: blocks while the channel is full
QSendChan(c) ==
    /\ qpc[c] = "send"
    /\ ChanHasRoom(chan)
    /\ chan' = Append(chan, HarnessJob(c))
    /\ okSends' = okSends + 1
    /\ qres' = [qres EXCEPT ![c] = "ok"]
    /\ qpc' = [qpc EXCEPT ![c] = "idle"]
    /\ UNCHANGED <<fsVars, sanVars, rmVars, sampleVars, progVars,
                   exists, scanVars, enqueued, dequeued, scanned,
                   deleted, errors, scanners_done, delVars, sentLog,
                   recvLog, acted, outcome, syscalls, sawTransientEmpty, okRecvs>>

\* AdaptiveQueue::try_send, line 48
QTrySendBegin(c) ==
    /\ qpc[c] = "idle"
    /\ enqueued < MaxQueueOps
    /\ enqueued' = enqueued + SendIncrement
    /\ qpc' = [qpc EXCEPT ![c] = "try_send"]
    /\ UNCHANGED <<fsVars, sanVars, rmVars, sampleVars, progVars,
                   exists, scanVars, chan, dequeued, scanned,
                   deleted, errors, scanners_done, delVars, sentLog,
                   recvLog, acted, outcome, syscalls, sawTransientEmpty, okSends,
                   okRecvs, qres>>

\* AdaptiveQueue::try_send, line 49: Err(Full) on a full channel
QTrySendChan(c) ==
    /\ qpc[c] = "try_send"
    /\ IF ChanHasRoom(chan)
       THEN /\ chan' = Append(chan, HarnessJob(c))
            /\ okSends' = okSends + 1
            /\ qres' = [qres EXCEPT ![c] = "ok"]
       ELSE /\ qres' = [qres EXCEPT ![c] = "full"]
            /\ UNCHANGED <<chan, okSends>>
    /\ qpc' = [qpc EXCEPT ![c] = "idle"]
    /\ UNCHANGED <<fsVars, sanVars, rmVars, sampleVars, progVars,
                   exists, scanVars, enqueued, dequeued, scanned,
                   deleted, errors, scanners_done, delVars, sentLog,
                   recvLog, acted, outcome, syscalls, sawTransientEmpty, okRecvs>>

\* AdaptiveQueue::recv, line 54: blocks while the channel is empty
QRecv(c) ==
    /\ qpc[c] = "idle"
    /\ chan # <<>>
    /\ chan' = ChanRest(chan)
    /\ qpc' = [qpc EXCEPT ![c] = "count"]
    /\ UNCHANGED <<fsVars, sanVars, rmVars, sampleVars, progVars,
                   exists, scanVars, enqueued, dequeued, scanned,
                   deleted, errors, scanners_done, delVars, sentLog,
                   recvLog, acted, outcome, syscalls, sawTransientEmpty, okSends,
                   okRecvs, qres>>

\* AdaptiveQueue::try_recv, line 61: `?` returns Err(Empty) at once
QTryRecv(c) ==
    /\ qpc[c] = "idle"
    /\ IF chan = <<>>
       THEN /\ qres' = [qres EXCEPT ![c] = "empty"]
            /\ UNCHANGED <<chan, qpc>>
       ELSE /\ chan' = ChanRest(chan)
            /\ qpc' = [qpc EXCEPT ![c] = "count"]
            /\ UNCHANGED qres
    /\ UNCHANGED <<fsVars, sanVars, rmVars, sampleVars, progVars,
                   exists, scanVars, enqueued, dequeued, scanned,
                   deleted, errors, scanners_done, delVars, sentLog,
                   recvLog, acted, outcome, syscalls, sawTransientEmpty, okSends,
                   okRecvs>>

\* AdaptiveQueue::recv_timeout, line 71: `?` returns Err(Timeout)
QRecvTimeout(c) ==
    /\ qpc[c] = "idle"
    /\ IF chan = <<>>
       THEN /\ qres' = [qres EXCEPT ![c] = "timeout"]
            /\ UNCHANGED <<chan, qpc>>
       ELSE /\ chan' = ChanRest(chan)
            /\ qpc' = [qpc EXCEPT ![c] = "count"]
            /\ UNCHANGED qres
    /\ UNCHANGED <<fsVars, sanVars, rmVars, sampleVars, progVars,
                   exists, scanVars, enqueued, dequeued, scanned,
                   deleted, errors, scanners_done, delVars, sentLog,
                   recvLog, acted, outcome, syscalls, sawTransientEmpty, okSends,
                   okRecvs>>

\* AdaptiveQueue::recv / try_recv / recv_timeout, lines 55, 62, 72
QCount(c) ==
    /\ qpc[c] = "count"
    /\ dequeued' = dequeued + RecvIncrement
    /\ okRecvs' = okRecvs + 1
    /\ qres' = [qres EXCEPT ![c] = "ok"]
    /\ qpc' = [qpc EXCEPT ![c] = "idle"]
    /\ UNCHANGED <<fsVars, sanVars, rmVars, sampleVars, progVars,
                   exists, scanVars, chan, enqueued, scanned,
                   deleted, errors, scanners_done, delVars, sentLog,
                   recvLog, acted, outcome, syscalls, sawTransientEmpty, okSends>>

NoWorld == World(<<"none", "none", "none", "none", "none">>, {}, {}, {}, {}, {})

QInit ==
    /\ world = NoWorld
    /\ SanitizedRoots
    /\ dry_run = FALSE
    /\ continue_on_error = FALSE
    /\ exists = {}
    /\ stack = [w \in Workers |-> <<>>]
    /\ scanPc = [n \in Nodes |-> "idle"]
    /\ results = [n \in Nodes |-> "none"]
    /\ badLeft = [n \in Nodes |-> 0]
    /\ entryErrs = [n \in Nodes |-> 0]
    /\ QueueInit
    /\ ProgressInit
    /\ scanners_done = FALSE
    /\ dpc = [d \in Deleters |-> "off"]
    /\ djob = [d \in Deleters |-> NoJob]
    /\ dEnq = [d \in Deleters |-> 0]
    /\ sentLog = <<>>
    /\ recvLog = <<>>
    /\ acted = [n \in Nodes |-> 0]
    /\ outcome = [n \in Nodes |-> "none"]
    /\ syscalls = [n \in Nodes |-> 0]
    /\ sawTransientEmpty = FALSE
    /\ RmOff
    /\ ProgressOff
    /\ qpc = [c \in Clients |-> "idle"]
    /\ okSends = 0
    /\ okRecvs = 0
    /\ qres = [c \in Clients |-> "none"]

QNext ==
    \/ \E c \in Clients : QSendBegin(c)
    \/ \E c \in Clients : QSendChan(c)
    \/ \E c \in Clients : QTrySendBegin(c)
    \/ \E c \in Clients : QTrySendChan(c)
    \/ \E c \in Clients : QRecv(c)
    \/ \E c \in Clients : QTryRecv(c)
    \/ \E c \in Clients : QRecvTimeout(c)
    \/ \E c \in Clients : QCount(c)

QSpec == QInit /\ [][QNext]_vars

\* ------------------------------------------------------- the sanitizer alone
\* deduplicate_and_check_paths called on any list of up to MaxPaths paths,
\* on any of the disks.
RECURSIVE PathLists(_)
PathLists(n) ==
    IF n = 0 THEN {<<>>}
    ELSE PathLists(n - 1) \cup
         {Append(l, PathName[o]) : l \in PathLists(n - 1), o \in Paths}

NotRun == [ok |-> FALSE, paths |-> <<>>]

Sanitize ==
    /\ sanPc = "call"
    /\ sanResult' = deduplicate_and_check_paths(sanInput)
    /\ sanPc' = "done"
    /\ UNCHANGED <<fsVars, sanInput, rmVars, sampleVars, progVars, exists, scanVars, chan, enqueued,
                   dequeued, scanned, deleted, errors, scanners_done,
                   delVars, sentLog, recvLog, acted, outcome, syscalls,
                   sawTransientEmpty, harnessVars>>

SanInit ==
    /\ world \in Worlds
    /\ sanPc = "call"
    /\ sanInput \in PathLists(MaxPaths)
    /\ sanResult = NotRun
    /\ dry_run = FALSE
    /\ continue_on_error = FALSE
    /\ exists = {p \in Paths : world.kind[p] # "none"}
    /\ stack = [w \in Workers |-> <<>>]
    /\ scanPc = [n \in Nodes |-> "idle"]
    /\ results = [n \in Nodes |-> "none"]
    /\ badLeft = [n \in Nodes |-> 0]
    /\ entryErrs = [n \in Nodes |-> 0]
    /\ QueueInit
    /\ ProgressInit
    /\ scanners_done = FALSE
    /\ dpc = [d \in Deleters |-> "off"]
    /\ djob = [d \in Deleters |-> NoJob]
    /\ dEnq = [d \in Deleters |-> 0]
    /\ sentLog = <<>>
    /\ recvLog = <<>>
    /\ acted = [n \in Nodes |-> 0]
    /\ outcome = [n \in Nodes |-> "none"]
    /\ syscalls = [n \in Nodes |-> 0]
    /\ sawTransientEmpty = FALSE
    /\ RmOff
    /\ ProgressOff
    /\ qpc = [c \in Clients |-> "off"]
    /\ okSends = 0
    /\ okRecvs = 0
    /\ qres = [c \in Clients |-> "none"]

SanNext == Sanitize

SanSpec == SanInit /\ [][SanNext]_vars

\* ------------------------------------------- removal.rs, main.rs, results.rs
\* The single-pool remover that main runs: fast_remove on every sanitized
\* root, on the rayon pool; the queue and the delete workers are not used.

\* root/{file, file}, unlink of the first file fails
TwoFilesOneFails ==
    World(<<"dir", "file", "file", "none", "none">>, {1}, {}, {}, {}, {2})

\* root/{file, sub/{file}}, unlink of root/sub/file fails
NestedUnlinkFail ==
    World(<<"dir", "file", "dir", "file", "none">>, {1}, {}, {}, {}, {4})

\* two input roots: root/{file} and a file whose unlink fails
RootFailTree ==
    World(<<"dir", "file", "none", "none", "file">>, {1, 5}, {}, {}, {}, {5})

RmWorlds == Worlds \cup {TwoFilesOneFails, NestedUnlinkFail, RootFailTree}

\* variant: the roots are handed out until one of them has returned Err
RootOffered_UntilError(c) ==
    c \in Roots /\ \A r \in Roots : results[r] # "err"

\* main, lines 588-605: par_iter().map(..).collect() calls fast_remove on
\* every sanitized root
RootOffered(c) == c \in Roots

\* fast_remove(c) has not been called yet and its caller is handing it out:
\* main for a root, remove_directory(Parent[c]) for an entry
RmOffered(c) ==
    /\ exit_status = Running
    /\ scanPc[c] = "idle"
    /\ \/ RootOffered(c)
       \/ Parent[c] # 0 /\ c \in Entries(Parent[c]) /\ scanPc[Parent[c]] = "iter"

\* fast_remove, lines 156-174, and read_dir of remove_directory, line 85:
\* inc_scanned, symlink_metadata, dispatch on the file type. A failure of
\* symlink_metadata or read_dir and an unsupported type return Err without
\* inc_error.
RmCall(w, c) ==
    /\ CanTake(w)
    /\ RmOffered(c)
    /\ scanned' = fetch_add(scanned, 1)
    /\ CASE Classify(c) = "err" ->
              /\ scanPc' = [scanPc EXCEPT ![c] = "ret"]
              /\ results' = [results EXCEPT ![c] = "err"]
              /\ UNCHANGED stack
         [] Classify(c) = "job" ->
              /\ scanPc' = [scanPc EXCEPT ![c] = "unlink"]
              /\ stack' = [stack EXCEPT ![w] = Append(@, c)]
              /\ UNCHANGED results
         [] OTHER ->
              /\ scanPc' = [scanPc EXCEPT ![c] = "iter"]
              /\ stack' = [stack EXCEPT ![w] = Append(@, c)]
              /\ UNCHANGED results
    /\ UNCHANGED <<fsVars, sanVars, rmVars, sampleVars, progVars, exists,
                   badLeft, entryErrs, chan, enqueued, dequeued, deleted,
                   errors, scanners_done, delVars, sentLog, recvLog, acted,
                   outcome, syscalls, sawTransientEmpty, harnessVars>>

\* remove_file / remove_symlink, lines 9-73
RmUnlink(w) ==
    /\ stack[w] # <<>>
    /\ scanPc[Top(w)] = "unlink"
    /\ IF SyscallSkipped \/ RemoveFileOk(PathOf[Top(w)])
       THEN /\ exists' = IF SyscallSkipped THEN exists
                         ELSE exists \ {PathOf[Top(w)]}
            /\ deleted' = fetch_add(deleted, 1)
            /\ recent_len' = try_send(recent_len, RecentCapacity)
            /\ results' = [results EXCEPT ![Top(w)] = "ok"]
            /\ rmCount' = [rmCount EXCEPT ![Top(w)] = 1]
            /\ outcome' = [outcome EXCEPT ![PathOf[Top(w)]] = "deleted"]
            /\ UNCHANGED <<errors, error_len>>
       ELSE /\ errors' = fetch_add(errors, 1)
            /\ error_len' = try_send(error_len, ErrorCapacity)
            /\ results' = [results EXCEPT ![Top(w)] = "err"]
            /\ outcome' = [outcome EXCEPT ![PathOf[Top(w)]] = "error"]
            /\ UNCHANGED <<exists, deleted, recent_len, rmCount>>
    /\ acted' = [acted EXCEPT ![PathOf[Top(w)]] = @ + 1]
    /\ syscalls' = [syscalls EXCEPT ![PathOf[Top(w)]] =
                       IF SyscallSkipped THEN @ ELSE @ + 1]
    /\ scanPc' = [scanPc EXCEPT ![Top(w)] = "ret"]
    /\ stack' = [stack EXCEPT ![w] = Pop(w)]
    /\ UNCHANGED <<fsVars, sanVars, progVars, exit_status, badLeft, entryErrs,
                   chan, enqueued, dequeued, scanned, scanners_done, delVars,
                   sentLog, recvLog, sawTransientEmpty, harnessVars>>

\* remove_directory, lines 92-100: the iterator yields Err for an entry
RmBadEntry(w, n) ==
    /\ exit_status = Running
    /\ CanTake(w)
    /\ scanPc[n] = "iter"
    /\ badLeft[n] > 0
    /\ badLeft' = [badLeft EXCEPT ![n] = @ - 1]
    /\ entryErrs' = [entryErrs EXCEPT ![n] = @ + 1]
    /\ errors' = fetch_add(errors, 1)
    /\ error_len' = try_send(error_len, ErrorCapacity)
    /\ UNCHANGED <<fsVars, sanVars, rmVars, recent_len, progVars, exists,
                   stack, scanPc, results, chan, enqueued, dequeued, scanned,
                   deleted, scanners_done, delVars, sentLog, recvLog, acted,
                   outcome, syscalls, sawTransientEmpty, harnessVars>>

\* variant: the first error is returned whatever continue_on_error is
RmGivesUp_Always(n) == HasErrors(n)

\* remove_directory, lines 107-119: with errors among the collected results
\* the first one is returned unless continue_on_error is set
RmGivesUp(n) == HasErrors(n) /\ ~continue_on_error

\* remove_directory, lines 88-120: collect(), partition, the error test
RmCollect(w) ==
    /\ stack[w] # <<>>
    /\ scanPc[Top(w)] = "iter"
    /\ ChildrenCollected(Top(w))
    /\ IF RmGivesUp(Top(w))
       THEN /\ scanPc' = [scanPc EXCEPT ![Top(w)] = "ret"]
            /\ results' = [results EXCEPT ![Top(w)] = "err"]
            /\ stack' = [stack EXCEPT ![w] = Pop(w)]
       ELSE /\ scanPc' = [scanPc EXCEPT ![Top(w)] = "rmdir"]
            /\ UNCHANGED <<results, stack>>
    /\ UNCHANGED <<fsVars, sanVars, rmVars, sampleVars, progVars, exists,
                   badLeft, entryErrs, chan, enqueued, dequeued, scanned,
                   deleted, errors, scanners_done, delVars, sentLog, recvLog,
                   acted, outcome, syscalls, sawTransientEmpty, harnessVars>>

\* remove_directory, line 105: the sum of the counts the entries returned
\* in Ok
SuccessSum(n) ==
    LET S == {c \in Entries(n) : results[c] = "ok"}
        RECURSIVE Sum(_)
        Sum(T) == IF T = {} THEN 0
                  ELSE LET x == CHOOSE y \in T : TRUE
                       IN  rmCount[x] + Sum(T \ {x})
    IN  Sum(S)

\* remove_directory, lines 131-153: remove_dir unless dry_run, inc_deleted
\* or inc_error, and the count returned in Ok
RmRmdir(w) ==
    /\ stack[w] # <<>>
    /\ scanPc[Top(w)] = "rmdir"
    /\ IF SyscallSkipped \/ RemoveDirOk(PathOf[Top(w)])
       THEN /\ exists' = IF SyscallSkipped THEN exists
                         ELSE exists \ {PathOf[Top(w)]}
            /\ deleted' = fetch_add(deleted, 1)
            /\ recent_len' = try_send(recent_len, RecentCapacity)
            /\ results' = [results EXCEPT ![Top(w)] = "ok"]
            /\ rmCount' = [rmCount EXCEPT ![Top(w)] = SuccessSum(Top(w)) + 1]
            /\ outcome' = [outcome EXCEPT ![PathOf[Top(w)]] = "deleted"]
            /\ UNCHANGED <<errors, error_len>>
       ELSE /\ errors' = fetch_add(errors, 1)
            /\ error_len' = try_send(error_len, ErrorCapacity)
            /\ results' = [results EXCEPT ![Top(w)] = "err"]
            /\ outcome' = [outcome EXCEPT ![PathOf[Top(w)]] = "notempty"]
            /\ UNCHANGED <<exists, deleted, recent_len, rmCount>>
    /\ acted' = [acted EXCEPT ![PathOf[Top(w)]] = @ + 1]
    /\ syscalls' = [syscalls EXCEPT ![PathOf[Top(w)]] =
                       IF SyscallSkipped THEN @ ELSE @ + 1]
    /\ scanPc' = [scanPc EXCEPT ![Top(w)] = "ret"]
    /\ stack' = [stack EXCEPT ![w] = Pop(w)]
    /\ UNCHANGED <<fsVars, sanVars, progVars, exit_status, badLeft, entryErrs,
                   chan, enqueued, dequeued, scanned, scanners_done, delVars,
                   sentLog, recvLog, sawTransientEmpty, harnessVars>>

\* get_recent_files, line 91, called by ProgressDisplay::update on the TUI
\* thread: one try_recv takes one message off the recent-files channel
TuiRecvRecent ==
    /\ exit_status = Running
    /\ recent_len > 0
    /\ recent_len' = recent_len - 1
    /\ UNCHANGED <<fsVars, sanVars, rmVars, error_len, progVars, exists, scanVars, chan,
                   enqueued, dequeued, scanned, deleted, errors,
                   scanners_done, delVars, sentLog, recvLog, acted, outcome,
                   syscalls, sawTransientEmpty, harnessVars>>

\* get_error_files, line 102: one try_recv on the error channel
TuiRecvError ==
    /\ exit_status = Running
    /\ error_len > 0
    /\ error_len' = error_len - 1
    /\ UNCHANGED <<fsVars, sanVars, rmVars, recent_len, progVars, exists, scanVars, chan,
                   enqueued, dequeued, scanned, deleted, errors,
                   scanners_done, delVars, sentLog, recvLog, acted, outcome,
                   syscalls, sawTransientEmpty, harnessVars>>

\* process_results, lines 13-34: one is added per root whose fast_remove
\* returned Err
total_errors == Cardinality({r \in Roots : results[r] = "err"})

\* print_summary_and_exit, lines 54-59
ExitStatus(n) == IF n > 0 THEN 1 ELSE 0

\* main, lines 605-612: collect() has every root's result; process_results,
\* print_summary_and_exit
RmExit ==
    /\ exit_status = Running
    /\ Roots # {}
    /\ \A r \in Roots : scanPc[r] = "ret"
    /\ exit_status' = ExitStatus(total_errors)
    /\ UNCHANGED <<fsVars, sanVars, rmCount, sampleVars, progVars, exists,
                   scanVars, chan, enqueued, dequeued, scanned, deleted,
                   errors, scanners_done, delVars, sentLog, recvLog, acted,
                   outcome, syscalls, sawTransientEmpty, harnessVars>>

RmInit ==
    /\ world \in RmWorlds
    /\ SanitizedRoots
    /\ dry_run \in BOOLEAN
    /\ continue_on_error \in BOOLEAN
    /\ exists = {p \in Paths : world.kind[p] # "none"}
    /\ stack = [w \in Workers |-> <<>>]
    /\ scanPc = [n \in Nodes |-> "idle"]
    /\ results = [n \in Nodes |-> "none"]
    /\ badLeft = [n \in Nodes |->
                    IF PathOf[n] \in world.entryFail THEN 1 ELSE 0]
    /\ entryErrs = [n \in Nodes |-> 0]
    /\ QueueInit
    /\ ProgressInit
    /\ scanners_done = FALSE
    /\ dpc = [d \in Deleters |-> "off"]
    /\ djob = [d \in Deleters |-> NoJob]
    /\ dEnq = [d \in Deleters |-> 0]
    /\ sentLog = <<>>
    /\ recvLog = <<>>
    /\ acted = [n \in Nodes |-> 0]
    /\ outcome = [n \in Nodes |-> "none"]
    /\ syscalls = [n \in Nodes |-> 0]
    /\ sawTransientEmpty = FALSE
    /\ RmOff
    /\ ProgressOff
    /\ qpc = [c \in Clients |-> "off"]
    /\ okSends = 0
    /\ okRecvs = 0
    /\ qres = [c \in Clients |-> "none"]

RmNext ==
    \/ \E w \in Workers, c \in Nodes : RmCall(w, c)
    \/ \E w \in Workers, n \in Nodes : RmBadEntry(w, n)
    \/ \E w \in Workers : RmCollect(w)
    \/ \E w \in Workers : RmUnlink(w)
    \/ \E w \in Workers : RmRmdir(w)
    \/ TuiRecvRecent
    \/ TuiRecvError
    \/ RmExit

RmSpec == RmInit /\ [][RmNext]_vars

\* -------------------------------------------- progress.rs called on its own
\* Clients call inc_scanned, inc_deleted and inc_error of one RemoveProgress
\* IncrementsPerThread times each, in any order and interleaving, as the
\* threads of tests/concurrency_tests.rs do; a reader may take messages off
\* the channels or never run.

\* the clients between the fetch_add and the try_send of an inc_* call
InFlight(k) ==
    Cardinality({c \in Clients : ppc[c] = k})

\* inc_scanned, lines 55-57
PIncScanned(c) ==
    /\ ppc[c] = "idle"
    /\ ptodo[c] > 0
    /\ scanned' = fetch_add(scanned, 1)
    /\ pcalls' = [pcalls EXCEPT !["scanned"] = @ + 1]
    /\ ptodo' = [ptodo EXCEPT ![c] = @ - 1]
    /\ UNCHANGED <<fsVars, sanVars, rmVars, sampleVars, ppc, preads, exists, scanVars, chan,
                   enqueued, dequeued, deleted, errors,
                   scanners_done, delVars, sentLog, recvLog, acted, outcome,
                   syscalls, sawTransientEmpty, harnessVars>>

\* inc_deleted, line 59: the fetch_add
PIncDeleted(c) ==
    /\ ppc[c] = "idle"
    /\ ptodo[c] > 0
    /\ deleted' = fetch_add(deleted, 1)
    /\ ppc' = [ppc EXCEPT ![c] = "deleted"]
    /\ ptodo' = [ptodo EXCEPT ![c] = @ - 1]
    /\ UNCHANGED <<fsVars, sanVars, rmVars, sampleVars, pcalls, preads, exists, scanVars, chan,
                   enqueued, dequeued, scanned, errors,
                   scanners_done, delVars, sentLog, recvLog, acted, outcome,
                   syscalls, sawTransientEmpty, harnessVars>>

\* inc_deleted, line 62: the try_send, and the return
PSendRecent(c) ==
    /\ ppc[c] = "deleted"
    /\ try_send_returns(recent_len, RecentCapacity)
    /\ recent_len' = try_send(recent_len, RecentCapacity)
    /\ pcalls' = [pcalls EXCEPT !["deleted"] = @ + 1]
    /\ ppc' = [ppc EXCEPT ![c] = "idle"]
    /\ UNCHANGED <<fsVars, sanVars, rmVars, error_len, ptodo, preads, exists, scanVars, chan,
                   enqueued, dequeued, scanned, deleted, errors,
                   scanners_done, delVars, sentLog, recvLog, acted, outcome,
                   syscalls, sawTransientEmpty, harnessVars>>

\* inc_error, line 65: the fetch_add
PIncError(c) ==
    /\ ppc[c] = "idle"
    /\ ptodo[c] > 0
    /\ errors' = fetch_add(errors, 1)
    /\ ppc' = [ppc EXCEPT ![c] = "errors"]
    /\ ptodo' = [ptodo EXCEPT ![c] = @ - 1]
    /\ UNCHANGED <<fsVars, sanVars, rmVars, sampleVars, pcalls, preads, exists, scanVars, chan,
                   enqueued, dequeued, scanned, deleted,
                   scanners_done, delVars, sentLog, recvLog, acted, outcome,
                   syscalls, sawTransientEmpty, harnessVars>>

\* inc_error, line 68: the try_send, and the return
PSendError(c) ==
    /\ ppc[c] = "errors"
    /\ try_send_returns(error_len, ErrorCapacity)
    /\ error_len' = try_send(error_len, ErrorCapacity)
    /\ pcalls' = [pcalls EXCEPT !["errors"] = @ + 1]
    /\ ppc' = [ppc EXCEPT ![c] = "idle"]
    /\ UNCHANGED <<fsVars, sanVars, rmVars, recent_len, ptodo, preads, exists, scanVars, chan,
                   enqueued, dequeued, scanned, deleted, errors,
                   scanners_done, delVars, sentLog, recvLog, acted, outcome,
                   syscalls, sawTransientEmpty, harnessVars>>

\* get_recent_files, line 91: the reader takes one message
PRecvRecent ==
    /\ preads < MaxReads
    /\ recent_len > 0
    /\ recent_len' = recent_len - 1
    /\ preads' = preads + 1
    /\ UNCHANGED <<fsVars, sanVars, rmVars, error_len, ppc, pcalls, ptodo, exists, scanVars, chan,
                   enqueued, dequeued, scanned, deleted, errors,
                   scanners_done, delVars, sentLog, recvLog, acted, outcome,
                   syscalls, sawTransientEmpty, harnessVars>>

\* get_error_files, line 102: the reader takes one message
PRecvError ==
    /\ preads < MaxReads
    /\ error_len > 0
    /\ error_len' = error_len - 1
    /\ preads' = preads + 1
    /\ UNCHANGED <<fsVars, sanVars, rmVars, recent_len, ppc, pcalls, ptodo, exists, scanVars, chan,
                   enqueued, dequeued, scanned, deleted, errors,
                   scanners_done, delVars, sentLog, recvLog, acted, outcome,
                   syscalls, sawTransientEmpty, harnessVars>>

\* The harness starts on a RemoveProgress that is new, or on one that has
\* served capacity - 1 inc_deleted (inc_error) calls with no reader.
PInit ==
    /\ world = NoWorld
    /\ SanitizedRoots
    /\ dry_run = FALSE
    /\ continue_on_error = FALSE
    /\ exists = {}
    /\ stack = [w \in Workers |-> <<>>]
    /\ scanPc = [n \in Nodes |-> "idle"]
    /\ results = [n \in Nodes |-> "none"]
    /\ badLeft = [n \in Nodes |-> 0]
    /\ entryErrs = [n \in Nodes |-> 0]
    /\ QueueInit
    /\ scanned = 0
    /\ recent_len \in {0, RecentCapacity - 1}
    /\ deleted = recent_len
    /\ error_len \in {0, ErrorCapacity - 1}
    /\ errors = error_len
    /\ scanners_done = FALSE
    /\ dpc = [d \in Deleters |-> "off"]
    /\ djob = [d \in Deleters |-> NoJob]
    /\ dEnq = [d \in Deleters |-> 0]
    /\ sentLog = <<>>
    /\ recvLog = <<>>
    /\ acted = [n \in Nodes |-> 0]
    /\ outcome = [n \in Nodes |-> "none"]
    /\ syscalls = [n \in Nodes |-> 0]
    /\ sawTransientEmpty = FALSE
    /\ RmOff
    /\ ppc = [c \in Clients |-> "idle"]
    /\ pcalls = [k \in Counters |->
                    IF k = "deleted" THEN deleted
                    ELSE IF k = "errors" THEN errors ELSE 0]
    /\ ptodo = [c \in Clients |-> IncrementsPerThread]
    /\ preads = 0
    /\ qpc = [c \in Clients |-> "off"]
    /\ okSends = 0
    /\ okRecvs = 0
    /\ qres = [c \in Clients |-> "none"]

PNext ==
    \/ \E c \in Clients : PIncScanned(c)
    \/ \E c \in Clients : PIncDeleted(c)
    \/ \E c \in Clients : PSendRecent(c)
    \/ \E c \in Clients : PIncError(c)
    \/ \E c \in Clients : PSendError(c)
    \/ PRecvRecent
    \/ PRecvError

PSpec == PInit /\ [][PNext]_vars

\* ---------------------------------------------------------- fair scheduling
\* the steps of one rayon thread of the single-pool remover
RmWorkerStep(w) ==
    \/ \E c \in Nodes : RmCall(w, c)
    \/ \E n \in Nodes : RmBadEntry(w, n)
    \/ RmCollect(w)
    \/ RmUnlink(w)
    \/ RmRmdir(w)

\* Every rayon thread that can run is eventually scheduled, and so is the
\* main thread once collect() has returned.
RmFairSpec ==
    /\ RmInit
    /\ [][RmNext]_vars
    /\ \A w \in Workers : WF_vars(RmWorkerStep(w))
    /\ WF_vars(RmExit)

WorkerStep(w) ==
    \/ \E c \in Nodes : ScanCall(w, c)
    \/ \E n \in Nodes : ScanBadEntry(w, n)
    \/ ScanCollect(w)
    \/ ScanEnqueue(w)
    \/ ScanSend(w)

DeleterStep(d) ==
    \/ DeleterRecv(d)
    \/ DeleterCount(d)
    \/ DeleterAct(d)
    \/ DeleterTimeout(d)
    \/ DeleterCheckDone(d)
    \/ DeleterLoadEnqueued(d)
    \/ DeleterLoadDequeued(d)

\* Every OS thread that can run is eventually scheduled.
\* continue_on_error is read only when an entry has failed (scanner.rs
\* line 83); on the trees without failures one value of it is enough.
FairInit ==
    /\ Init
    /\ world \in FairWorlds
    /\ world \in {NestedTree, TwoRoots} => ~continue_on_error

FairSpec ==
    /\ FairInit
    /\ [][Next]_vars
    /\ \A w \in Workers : WF_vars(WorkerStep(w))
    /\ \A d \in Deleters : WF_vars(DeleterStep(d))
    /\ WF_vars(SetScannersDone)

\* ------------------------------------------------------------------ claims
SentPaths == {sentLog[i].path : i \in 1..Len(sentLog)}

PositionsOf(log, n) == {i \in 1..Len(log) : log[i].path = n}

\* C1: when EmptyDir(D) has entered the channel, scan_path has returned for
\* every entry of D, no call below D is still running, and every job for a
\* descendant of D entered the channel before it.
C1_EmptyDirSentAfterDescendants ==
    \A i \in 1..Len(sentLog) :
        sentLog[i].tag = "EmptyDir" =>
            /\ \A c \in Entries(sentLog[i].path) : scanPc[c] = "ret"
            /\ \A n \in Nodes :
                   IsDescendant(n, sentLog[i].path) =>
                       /\ scanPc[n] \in {"idle", "ret"}
                       /\ \A j \in PositionsOf(sentLog, n) : j < i

C1_Witness ==
    \E i, j \in 1..Len(sentLog) :
        /\ sentLog[i] = FileJob("dir", 1)
        /\ sentLog[j].path = 4
        /\ j < i

\* C2: in the order in which jobs leave the channel, every job sent for a
\* descendant of D comes before EmptyDir(D).
C2_EmptyDirReceivedAfterDescendants ==
    \A i \in 1..Len(recvLog) :
        recvLog[i].tag = "EmptyDir" =>
            \A n \in SentPaths :
                IsDescendant(n, recvLog[i].path) =>
                    \E k \in PositionsOf(recvLog, n) : k < i

C2_Witness ==
    \E i, k \in 1..Len(recvLog) :
        /\ recvLog[i] = FileJob("dir", 1)
        /\ recvLog[k].path = 4
        /\ k < i
        /\ \E d \in Deleters : djob[d].path = 1
        /\ \E d \in Deleters : dpc[d] = "act" /\ djob[d].path # 1

\* C3: a delete_worker that has left its loop did so with ScannersDone set,
\* every scan_path call returned, and every job ever enqueued dequeued.
C3_ExitOnlyWhenDrained ==
    \A d \in Deleters :
        dpc[d] = "exit" =>
            /\ scanners_done
            /\ AllScannersReturned
            /\ chan = <<>>
            /\ dequeued = enqueued
            /\ Len(recvLog) = Len(sentLog)

C3_Witness ==
    /\ \E d \in Deleters : dpc[d] = "exit"
    /\ sawTransientEmpty
    /\ Len(sentLog) >= 3

\* C4: under fair scheduling every run ends: all scan_path calls return,
\* ScannersDone is set and every delete_worker leaves its loop.
C4_EveryRunTerminates ==
    <>(RunEnded /\ AllScannersReturned /\ \A w \in Workers : stack[w] = <<>>)

C4_Witness ==
    /\ RunEnded
    /\ Len(recvLog) >= 3
    /\ sawTransientEmpty

\* C5: when all delete workers have exited, every job sent was received
\* exactly once and acted on exactly once.
C5_EveryJobHandledOnce ==
    AllDeletersExited =>
        /\ chan = <<>>
        /\ \A n \in Nodes :
               /\ Cardinality(PositionsOf(recvLog, n)) = Cardinality(PositionsOf(sentLog, n))
               /\ acted[n] = Cardinality(PositionsOf(sentLog, n))
               /\ acted[n] <= 1

C5_Witness ==
    /\ AllDeletersExited
    /\ Len(sentLog) >= 4
    /\ \A n \in SentPaths : acted[n] = 1

CleanWorld ==
    /\ world.metaFail = {}
    /\ world.readdirFail = {}
    /\ world.entryFail = {}
    /\ world.unlinkFail = {}
    /\ \A p \in Paths : world.kind[p] # "other"

\* the objects of the trees under the input roots
TreePaths ==
    {PathOf[n] : n \in {m \in Nodes :
        /\ KindOf(m) # "none"
        /\ \/ m \in Roots
           \/ \E r \in Roots : IsDescendant(m, r)}}

ObjectCount == Cardinality(TreePaths)

\* C6: a run without dry_run on a tree without failures ends with every
\* object removed, deleted equal to the number of objects and errors 0.
C6_CleanTreeFullyRemoved ==
    (RunEnded /\ ~dry_run /\ CleanWorld) =>
        /\ exists \cap TreePaths = {}
        /\ deleted = ObjectCount
        /\ errors = 0

\* an entry of n is still on disk only because its job has not been acted on
NotYetEmpty(n) ==
    \E c \in ChildrenOf(n) \cap exists :
        /\ c \in SentPaths
        /\ acted[c] = 0
        /\ KindOf(c) \in {"file", "symlink"}
        /\ c \notin world.unlinkFail

\* C7: when the rmdir of EmptyDir(D) fails because D is not yet empty, the
\* error is recorded only after the rmdir has been retried.
C7_NotEmptyRetriedBeforeError ==
    \A n \in Nodes :
        (outcome[n] = "notempty" /\ NotYetEmpty(n)) => syscalls[n] > 1

\* C8: at the end of every run deleted + errors = scanned.
C8_CountersBalance ==
    RunEnded => deleted + errors = scanned

Quiescent == \A c \in Clients : qpc[c] = "idle"

\* C9: the enqueued counter is never smaller than the dequeued counter.
C9_EnqueuedAtLeastDequeued == enqueued >= dequeued

C9_Witness ==
    /\ dequeued >= 2
    /\ \E c \in Clients : qpc[c] = "count"
    /\ \E c \in Clients : qres[c] = "full"

\* C10: the enqueued counter changes only on successful sends: when no call
\* is in progress it equals the number of send / try_send calls that
\* returned Ok, and depth() is the number of jobs in the channel.
C10_FailedSendLeavesCounters ==
    Quiescent =>
        /\ enqueued = okSends
        /\ depth(enqueued, dequeued) = Len(chan)

\* C11: when no queue operation is in progress, depth() is the number of
\* successful sends minus the number of successful receives, that is the
\* number of jobs in the channel, and is_empty() is true exactly when
\* depth() is 0.
C11_DepthIsSendsMinusRecvs ==
    Quiescent =>
        /\ depth(enqueued, dequeued) = okSends - okRecvs
        /\ okSends - okRecvs = Len(chan)
        /\ is_empty(enqueued, dequeued) <=> (depth(enqueued, dequeued) = 0)

\* C12: the channel never holds more than QueueCapacity jobs; a job enters
\* it only while there is room, behind the jobs already there, and a job
\* leaves it only by being received (it is the next entry of recvLog).
C12_QueueNeverOverCapacity ==
    [][/\ Len(chan') <= QueueCapacity
       /\ chan' # chan =>
             \/ /\ Len(chan) < QueueCapacity
                /\ Len(chan') = Len(chan) + 1
                /\ SubSeq(chan', 1, Len(chan)) = chan
                /\ sentLog' = Append(sentLog, chan'[Len(chan')])
             \/ /\ chan # <<>>
                /\ chan' = Tail(chan)
                /\ recvLog' = Append(recvLog, Head(chan))]_vars

\* a scanner is blocked in send on a full channel
C12_Witness ==
    /\ Len(chan) = QueueCapacity
    /\ \E w \in Workers :
          /\ stack[w] # <<>>
          /\ scanPc[stack[w][Len(stack[w])]] = "snd"

\* C13: scanners_done is eventually set, and only when every scan_path call
\* has returned and every rayon worker is idle; once set it stays set, and
\* from then on the enqueued counter does not change.
C13_ScannersDoneIsFinal ==
    /\ <>scanners_done
    /\ [][/\ (~scanners_done /\ scanners_done') =>
                /\ AllScannersReturned
                /\ \A w \in Workers : stack[w] = <<>>
                /\ \A n \in Nodes : scanPc[n] \in {"idle", "ret"}
          /\ scanners_done =>
                /\ scanners_done'
                /\ enqueued' = enqueued]_vars

\* scanners_done is set while jobs are still in the channel
C13_Witness ==
    /\ scanners_done
    /\ enqueued >= 4
    /\ chan # <<>>

RECURSIVE SumOver(_, _)
SumOver(f, S) ==
    IF S = {} THEN 0
    ELSE LET x == CHOOSE y \in S : TRUE IN f[x] + SumOver(f, S \ {x})

\* C14: in a dry run no unlink and no rmdir is issued and the objects on
\* disk are those from before the run, while every job a delete_* function
\* was called on has incremented deleted.
C14_DryRunLeavesDisk ==
    dry_run =>
        /\ \A p \in Paths : syscalls[p] = 0
        /\ exists = {p \in Paths : world.kind[p] # "none"}
        /\ deleted = SumOver(acted, Paths)
        /\ \A p \in Paths : outcome[p] \in {"none", "deleted"}

C14_Witness ==
    /\ dry_run
    /\ RunEnded
    /\ deleted >= 4
    /\ dequeued = deleted

\* no symlink_metadata, read_dir or entry failure, and nothing but files,
\* symbolic links and directories in the trees
NoScanFailures ==
    /\ world.metaFail = {}
    /\ world.readdirFail = {}
    /\ world.entryFail = {}
    /\ \A p \in TreePaths : world.kind[p] # "other"

\* C15: after a dry run over trees without scan failures, scanned is the
\* number of objects of the trees (files, symbolic links and directories,
\* the roots included) and as many jobs were enqueued, one for each object.
C15_DryRunScansEveryObject ==
    (RunEnded /\ dry_run /\ NoScanFailures) =>
        /\ scanned = ObjectCount
        /\ enqueued = scanned
        /\ Len(sentLog) = scanned
        /\ SentPaths = TreePaths

C15_Witness ==
    /\ RunEnded
    /\ dry_run
    /\ world = TwoRoots
    /\ scanned = 3

\* q is a path other than p that lies inside p
Inside(q, p) == q # p /\ starts_with(q, p)

\* the canonical form of each input path, the path itself where there is none
InputForms ==
    [i \in 1..Len(sanInput) |->
        IF canonicalize(sanInput[i]).ok THEN canonicalize(sanInput[i]).path
        ELSE sanInput[i]]

FirstIndex(seq, x) ==
    CHOOSE i \in 1..Len(seq) :
        seq[i] = x /\ \A k \in 1..(i - 1) : seq[k] # x

\* C17: when the call succeeds, the result holds each canonical form of the
\* input once and nothing else, in the order of their first occurrence in
\* the input, and no element of it is a component-wise prefix of another.
C17_ResultDedupedOrderedDisjoint ==
    (sanPc = "done" /\ sanResult.ok) =>
        LET r == sanResult.paths IN
        /\ \A i, j \in 1..Len(r) : i # j => r[i] # r[j]
        /\ {r[i] : i \in 1..Len(r)} =
              {InputForms[i] : i \in 1..Len(sanInput)}
        /\ \A i, j \in 1..Len(r) :
              i < j => FirstIndex(InputForms, r[i]) < FirstIndex(InputForms, r[j])
        /\ \A i, j \in 1..Len(r) : i # j => ~starts_with(r[i], r[j])

\* a link and its target are both given, the link first; a third path
\* comes before the target
C17_Witness ==
    /\ sanPc = "done"
    /\ sanResult.ok
    /\ Len(sanInput) = 3
    /\ Len(sanResult.paths) = 2
    /\ InputForms[1] = InputForms[3]
    /\ InputForms[1] # sanInput[1]

\* the reorderings of a list
Reorderings(seq) ==
    LET n == Len(seq) IN
    {[i \in 1..n |-> seq[f[i]]] :
        f \in {g \in [1..n -> 1..n] : \A a, b \in 1..n : a # b => g[a] # g[b]}}

SetOf(seq) == {seq[i] : i \in 1..Len(seq)}

\* C18: when the call succeeds, calling it on its own result succeeds and
\* gives the same set of paths; and the call fails on a list exactly when
\* it fails on every reordering of that list.
C18_SanitizeIdempotent ==
    sanPc = "done" =>
        /\ sanResult.ok =>
              /\ deduplicate_and_check_paths(sanResult.paths).ok
              /\ SetOf(deduplicate_and_check_paths(sanResult.paths).paths) =
                    SetOf(sanResult.paths)
        /\ \A x \in Reorderings(sanInput) :
              deduplicate_and_check_paths(x).ok = sanResult.ok

\* the result holds the target of a link that was given and a missing
\* path kept as given
C18_Witness ==
    /\ sanPc = "done"
    /\ sanResult.ok
    /\ Len(sanResult.paths) >= 2
    /\ \E i \in 1..Len(sanInput) : InputForms[i] # sanInput[i]
    /\ \E i \in 1..Len(sanInput) : ~canonicalize(sanInput[i]).ok

\* C19: in a run over sanitized roots no two jobs that entered the channel
\* carry the same path, and no scan_path call runs on a path another call
\* was made on.
C19_OneJobPerPath ==
    /\ \A i, j \in 1..Len(sentLog) : i # j => sentLog[i].path # sentLog[j].path
    /\ \A m, n \in Nodes :
          (m # n /\ scanPc[m] # "idle" /\ scanPc[n] # "idle") => PathOf[m] # PathOf[n]

\* both roots and the whole nested tree have been sent by two workers
C19_Witness ==
    /\ Len(sentLog) >= 4
    /\ \E i, j \in 1..Len(sentLog) :
          i < j /\ sentLog[i].tag = "EmptyDir" /\ sentLog[j].tag = "File"

\* C20: for a symbolic link in a tree whose target is outside the trees,
\* the only job on the link's path is one Symlink job, present once
\* scan_path has returned Ok for the link; the target is never scanned,
\* never sent and never handed to a delete_* function, and it stays on disk.
C20_SymlinkNotFollowed ==
    \A p \in TreePaths :
        (world.kind[p] = "symlink" /\ LinkTarget[p] \notin TreePaths) =>
            /\ \A i \in PositionsOf(sentLog, p) : sentLog[i].tag = "Symlink"
            /\ Cardinality(PositionsOf(sentLog, p)) <= 1
            /\ results[p] = "ok" => Cardinality(PositionsOf(sentLog, p)) = 1
            /\ \A m \in Nodes : PathOf[m] = LinkTarget[p] => scanPc[m] = "idle"
            /\ PositionsOf(sentLog, LinkTarget[p]) = {}
            /\ acted[LinkTarget[p]] = 0
            /\ syscalls[LinkTarget[p]] = 0
            /\ LinkTarget[p] \in exists

\* the run has ended, the link is gone and its target is still there
C20_Witness ==
    /\ world = SymlinkTree
    /\ RunEnded
    /\ ~dry_run
    /\ outcome[2] = "deleted"
    /\ 2 \notin exists
    /\ 5 \in exists
    /\ exists \cap TreePaths = {}

\* the objects the user named
NamedPaths == {PathOf[r] : r \in world.roots}

\* C21: a symbolic link the user names as an input root is removed by the
\* run and the object it points to, which the user did not name, stays on
\* disk.
C21_NamedLinkRemovedTargetKept ==
    \A p \in NamedPaths :
        (world.kind[p] = "symlink" /\ LinkTarget[p] \notin NamedPaths) =>
            /\ LinkTarget[p] \in exists
            /\ (RunEnded /\ ~dry_run) => p \notin exists

\* scan_path(n) has returned an error of its own: MetadataFailed,
\* UnsupportedType, or ReadDirFailed from its scan_directory
OwnScanFailure(n) ==
    /\ scanPc[n] = "ret"
    /\ \/ PathOf[n] \in world.metaFail
       \/ KindOf(n) = "other"
       \/ KindOf(n) = "dir" /\ PathOf[n] \in world.readdirFail

\* the scanner-side failures met so far
ScanFailuresMet ==
    Cardinality({n \in Nodes : OwnScanFailure(n)}) + SumOver(entryErrs, Nodes)

\* C23: under continue_on_error every scanner-side failure has incremented
\* errors once (in a dry run the deleters add none), and scan_path is
\* called on every entry of a directory whose listing has been collected.
C23_ScanFailuresRecorded ==
    (continue_on_error /\ dry_run) =>
        /\ errors = ScanFailuresMet
        /\ \A n \in Nodes :
              scanPc[n] \in {"enq", "snd"} =>
                  \A c \in Entries(n) : scanPc[c] = "ret"

\* an EmptyDir job for the path of n has entered the channel
EmptyDirSent(n) ==
    \E i \in 1..Len(sentLog) :
        sentLog[i].tag = "EmptyDir" /\ sentLog[i].path = PathOf[n]

\* C24: under continue_on_error, scan_path on a directory that could be
\* stat'ed and opened returns Ok and has sent its EmptyDir job, whatever
\* failed below it; so a failure below D reaches neither D nor an ancestor.
C24_ErrorsStayBelow ==
    continue_on_error =>
        \A n \in Nodes :
            (scanPc[n] = "ret" /\ KindOf(n) = "dir" /\ ~OwnScanFailure(n)) =>
                /\ results[n] = "ok"
                /\ EmptyDirSent(n)

\* symlink_metadata failed on /a/b/g; /a/b and /a were sent all the same
C24_Witness ==
    /\ continue_on_error
    /\ results[4] = "err"
    /\ EmptyDirSent(3)
    /\ EmptyDirSent(1)
    /\ results[1] = "ok"

\* scan_directory(n) has opened the directory and collected its results
Collected(n) ==
    /\ KindOf(n) = "dir"
    /\ ~OwnScanFailure(n)
    /\ scanPc[n] \in {"enq", "snd", "ret"}

\* C25: with either value of continue_on_error, once a directory's results
\* are collected scan_path has returned for every entry read_dir yielded,
\* and each entry that returned Ok has its job in the channel history, as
\* has everything below it that returned Ok.
C25_SiblingsScanned ==
    \A n \in Nodes :
        Collected(n) =>
            \A c \in Entries(n) :
                /\ scanPc[c] = "ret"
                /\ results[c] = "ok" =>
                      /\ PathOf[c] \in SentPaths
                      /\ \A d \in Nodes :
                            (IsDescendant(d, c) /\ results[d] = "ok")
                                => PathOf[d] \in SentPaths

\* /a/b failed because of /a/b/g; its sibling /a/bc was sent
C25_Witness ==
    /\ ~continue_on_error
    /\ scanPc[1] = "ret"
    /\ results[1] = "err"
    /\ results[3] = "err"
    /\ results[4] = "err"
    /\ results[2] = "ok"
    /\ 2 \in SentPaths

\* the jobs whose delete_* call returned Err
FailedPaths == {p \in Paths : outcome[p] \in {"error", "notempty"}}

\* C28: with either value of continue_on_error, a delete worker that has
\* acted on a job, failed or not, goes back to recv_timeout and has
\* incremented deleted or errors; and when the run has ended every job
\* that was sent has been acted on and every failure is in errors.
C28_DeleterGoesOnAfterError ==
    /\ [](RunEnded =>
            /\ \A p \in SentPaths : acted[p] >= 1
            /\ errors >= Cardinality(FailedPaths))
    /\ [][\A d \in Deleters :
            (dpc[d] = "act" /\ dpc'[d] # "act") =>
                /\ dpc'[d] = "recv"
                /\ deleted' + errors' = deleted + errors + 1]_vars

\* the unlink of /a/bc failed and a job received after it was deleted
C28_Witness ==
    /\ RunEnded
    /\ outcome[2] = "error"
    /\ \E i, j \in 1..Len(recvLog) :
          /\ i < j
          /\ recvLog[i].path = 2
          /\ outcome[recvLog[j].path] = "deleted"

\* C22: the process exits with status 0 exactly when the errors counter
\* is 0 at the exit.
C22_ExitZeroIffNoErrors ==
    exit_status # Running => (exit_status = 0 <=> errors = 0)

\* the calls fast_remove makes below (and on) n
Subtree(n) == {m \in Nodes : (m = n \/ IsDescendant(m, n)) /\ KindOf(m) # "none"}

\* no syscall fails anywhere in the tree of n
ErrorFree(n) ==
    \A m \in Subtree(n) :
        /\ KindOf(m) \in {"file", "symlink", "dir"}
        /\ PathOf[m] \notin (world.metaFail \cup world.readdirFail
                               \cup world.entryFail \cup world.unlinkFail)

\* C26: without continue_on_error, every error-free input root is in the
\* end processed to its last object (fast_remove returns Ok with the count
\* of the whole tree) and, outside dry-run, removed from the disk, whatever
\* happens in the other roots.
C26_ErrorFreeRootsRemoved ==
    \A r \in Nodes :
        (r \in Roots /\ ~continue_on_error /\ ErrorFree(r)) ~>
            /\ results[r] = "ok"
            /\ rmCount[r] = Cardinality(Subtree(r))
            /\ ~dry_run => \A m \in Subtree(r) : PathOf[m] \notin exists

\* the root /t has returned Err and the tree of the root /a is gone
C26_Witness ==
    /\ world = RootFailTree
    /\ ~continue_on_error
    /\ results[5] = "err"
    /\ results[1] = "ok"
    /\ {1, 2} \cap exists = {}
    /\ exit_status = 1

\* the unlink of exactly one file or link of the tree fails, nothing else
OneUnlinkFails ==
    /\ Cardinality(world.unlinkFail) = 1
    /\ world.unlinkFail \subseteq TreePaths
    /\ \A f \in world.unlinkFail : world.kind[f] \in {"file", "symlink"}
    /\ world.metaFail \cup world.readdirFail \cup world.entryFail = {}
    /\ \A p \in TreePaths : world.kind[p] \in {"file", "symlink", "dir"}

\* the file whose unlink fails and the directories of the tree it lies in
KeptPaths ==
    world.unlinkFail \cup
    {PathOf[a] : a \in {a \in Nodes : \E n \in Nodes, r \in Roots :
                            /\ PathOf[n] \in world.unlinkFail
                            /\ n \in Subtree(r)
                            /\ a \in Subtree(r)
                            /\ IsDescendant(n, a)}}

Counter(k) ==
    IF k = "scanned" THEN scanned ELSE IF k = "deleted" THEN deleted ELSE errors

\* C29: no counter ever decreases, and each counter equals the number of
\* inc_* calls on it that have returned plus those that are past their
\* fetch_add: once N calls have returned and none is in flight the counter
\* has grown by exactly N.
C29_NoIncrementLost ==
    /\ [](\A k \in Counters : Counter(k) = pcalls[k] + InFlight(k))
    /\ [][/\ scanned' >= scanned
          /\ deleted' >= deleted
          /\ errors' >= errors]_vars

\* every client has made all its calls, on all three counters
C29_Witness ==
    /\ \A c \in Clients : ppc[c] = "idle" /\ ptodo[c] = 0
    /\ \A k \in Counters : pcalls[k] > 0
    /\ scanned + deleted + errors =
           Cardinality(Clients) * IncrementsPerThread
    /\ recent_len = 0
    /\ preads > 0

\* C30: an inc_deleted or inc_error call that has incremented its counter
\* can always take its try_send step and return, the channels never hold
\* more than 1000 and 100 messages, and a call made on a full channel
\* leaves the channel as it is while the counter has its increment.
C30_LossyNeverBlocks ==
    /\ [](/\ recent_len <= RecentCapacity
          /\ error_len <= ErrorCapacity
          /\ \A c \in Clients :
                /\ ppc[c] = "deleted" => ENABLED PSendRecent(c)
                /\ ppc[c] = "errors" => ENABLED PSendError(c))
    /\ [][\A c \in Clients :
            /\ (ppc[c] = "deleted" /\ ppc'[c] = "idle"
                   /\ recent_len = RecentCapacity) =>
                  (recent_len' = RecentCapacity /\ deleted' = deleted
                   /\ deleted > pcalls["deleted"])
            /\ (ppc[c] = "errors" /\ ppc'[c] = "idle"
                   /\ error_len = ErrorCapacity) =>
                  (error_len' = ErrorCapacity /\ errors' = errors
                   /\ errors > pcalls["errors"])]_vars

\* with no reader, both channels are full and samples have been dropped
C30_Witness ==
    /\ recent_len = RecentCapacity
    /\ error_len = ErrorCapacity
    /\ deleted > RecentCapacity
    /\ errors > ErrorCapacity
    /\ \A c \in Clients : ppc[c] = "idle"

\* C37: in the pipeline deleted <= dequeued <= enqueued <= scanned at all
\* times.
C37_CountersOrdered ==
    /\ deleted <= dequeued
    /\ dequeued <= enqueued
    /\ enqueued <= scanned

\* the four counters are all different while jobs are being deleted
C37_Witness ==
    /\ 0 < deleted
    /\ deleted < dequeued
    /\ dequeued < enqueued
    /\ enqueued < scanned

\* C38: enqueued - dequeued is never smaller than the number of jobs in
\* the channel, and when the counters are equal the channel is empty and
\* no send or try_send is between its increment and its channel operation.
C38_CountersCoverChannel ==
    /\ enqueued - dequeued >= Len(chan)
    /\ enqueued = dequeued =>
          /\ chan = <<>>
          /\ \A c \in Clients : qpc[c] \notin {"send", "try_send"}

\* jobs were sent and received and the counters are level again
C38_Witness ==
    /\ okRecvs > 0
    /\ enqueued = dequeued
    /\ enqueued = okSends
    /\ \A c \in Clients : qpc[c] = "idle"

\* the errors recorded by delete workers: all but those of scan_directory
DeleterErrors == errors - SumOver(entryErrs, Nodes)

\* C33: a delete worker that has processed a job has added one to exactly
\* one of deleted and errors: to deleted when the syscall succeeded or was
\* skipped in dry-run, to errors when it failed. So deleted plus the errors
\* recorded by deleters never exceeds dequeued, and equals it once every
\* deleter has exited.
C33_OneCounterPerJob ==
    /\ [](/\ deleted + DeleterErrors <= dequeued
          /\ AllDeletersExited => deleted + DeleterErrors = dequeued)
    /\ [][\A d \in Deleters :
            (dpc[d] = "act" /\ dpc'[d] # "act") =>
                IF dry_run \/ exists' # exists
                THEN deleted' = deleted + 1 /\ errors' = errors
                ELSE errors' = errors + 1 /\ deleted' = deleted]_vars

\* a run with a failed job and a deleted job
C33_Witness ==
    /\ AllDeletersExited
    /\ deleted > 0
    /\ DeleterErrors > 0
    /\ dequeued > 1

\* the files and links the scan reaches: every directory above them, up to
\* an input root, can be stat'ed and listed
Reached(n) ==
    /\ \E r \in Roots : n \in Subtree(r)
    /\ KindOf(n) \in {"file", "symlink"}
    /\ PathOf[n] \notin world.metaFail
    /\ \A a \in Nodes : IsDescendant(n, a) =>
          /\ KindOf(a) = "dir"
          /\ PathOf[a] \notin (world.metaFail \cup world.readdirFail)

\* C36: without continue_on_error, once scan_path(x) has returned Err no
\* EmptyDir job is ever sent for a directory above x, that directory stays
\* on disk and no rmdir is issued on it; and when the scanners are done the
\* job of every file and link the scan reached has been sent.
C36_NoEmptyDirAboveFailure ==
    ~continue_on_error =>
        /\ \A x, a \in Nodes :
              (results[x] = "err" /\ IsDescendant(x, a)) =>
                  /\ ~EmptyDirSent(a)
                  /\ PathOf[a] \in exists
                  /\ syscalls[PathOf[a]] = 0
        /\ scanners_done => \A n \in Nodes : Reached(n) => PathOf[n] \in SentPaths

\* symlink_metadata failed on root/sub/file: root/file was removed, root
\* and root/sub are left
C36_Witness ==
    /\ world = MetaFailTree
    /\ ~continue_on_error
    /\ ~dry_run
    /\ RunEnded
    /\ results[4] = "err"
    /\ exists = {1, 3, 4}

\* C39: with one delete worker, on a tree where no syscall fails, no rmdir
\* fails with directory-not-empty: every directory a job was handled for
\* was removed, and it was empty when its job was received.
C39_OneDeleterFindsDirsEmpty ==
    CleanWorld =>
        /\ \A n \in Nodes : outcome[n] # "notempty"
        /\ (dpc[1] = "act" /\ djob[1].tag = "EmptyDir" /\ ~dry_run) =>
              ChildrenOf(djob[1].path) \cap exists = {}

\* the single worker has removed root/{file, sub/{file}} and exited
C39_Witness ==
    /\ world = NestedTree
    /\ ~dry_run
    /\ dpc[1] = "exit"
    /\ exists = {}
    /\ syscalls[1] = 1
    /\ syscalls[3] = 1

\* the directories whose ReadDir is open: read_dir has returned it and the
\* collect() that consumes it has not returned
OpenIterators == {n \in Nodes : scanPc[n] = "iter"}

\* C32: at every moment at most scan_threads directory iterators are open.
C32_OpenIteratorsBounded ==
    Cardinality(OpenIterators) <= ScanThreads

\* every component of q is the component of p at the same place
ComponentPrefix(q, p) ==
    /\ Len(q) <= Len(p)
    /\ \A i \in 1..Len(q) : p[i] = q[i]

\* C34: deduplicate_and_check_paths fails exactly when, among the distinct
\* canonical forms of its input, one is a prefix of another component by
\* component; /a/b next to /a/bc is accepted.
C34_OverlapIsComponentWise ==
    sanPc = "done" =>
        /\ sanResult = PathOverlap <=>
              \E i, j \in 1..Len(sanInput) :
                  /\ InputForms[i] # InputForms[j]
                  /\ ComponentPrefix(InputForms[i], InputForms[j])
        /\ sanInput = <<PathName[3], PathName[2]>> => sanResult.ok

\* /a/b and /a/bc were given and both came back
C34_Witness ==
    /\ sanPc = "done"
    /\ sanInput = <<PathName[3], PathName[2]>>
    /\ sanResult = [ok |-> TRUE, paths |-> <<PathName[3], PathName[2]>>]

\* C35: in the single-pool remover the rmdir of a directory is issued only
\* after fast_remove has returned for each of its entries, and never when
\* an entry failed and continue_on_error is off; on a tree where nothing
\* fails fast_remove returns Ok with the number of objects of the tree,
\* root included, and outside dry-run all of them are gone.
C35_RmdirAfterEntries ==
    \A n \in UNION {Subtree(r) : r \in Roots} :
        /\ (scanPc[n] = "rmdir" \/ (KindOf(n) = "dir" /\ acted[PathOf[n]] > 0)) =>
              \A c \in Entries(n) : scanPc[c] = "ret"
        /\ (~continue_on_error /\ KindOf(n) = "dir"
              /\ (entryErrs[n] > 0 \/ \E c \in Entries(n) : results[c] = "err")) =>
              (scanPc[n] # "rmdir" /\ acted[PathOf[n]] = 0)
        /\ (scanPc[n] = "ret" /\ ErrorFree(n)) =>
              /\ results[n] = "ok"
              /\ rmCount[n] = Cardinality(Subtree(n))
              /\ ~dry_run => \A m \in Subtree(n) : PathOf[m] \notin exists

\* fast_remove(root) has returned Ok(4) for root/{file, sub/{file}}
C35_Witness ==
    /\ world = NestedTree
    /\ ~dry_run
    /\ results[1] = "ok"
    /\ rmCount[1] = 4
    /\ rmCount[3] = 2
    /\ exists = {}

\* What a call of fast_remove on n comes to, whatever the order in which
\* the entries are taken: ok (it returned Ok), gone (the objects removed),
\* deleted and errors (the inc_deleted and inc_error calls made).
RECURSIVE RmOutcome(_), RmEntries(_)
RmOutcome(n) ==
    LET p == PathOf[n]
        none == [ok |-> FALSE, gone |-> {}, deleted |-> 0, errors |-> 0]
        e == RmEntries(Entries(n))
        bad == IF p \in world.entryFail THEN 1 ELSE 0
        sub == [e EXCEPT !.errors = @ + bad, !.ok = @ /\ bad = 0]
    IN  IF p \in world.metaFail \/ KindOf(n) \notin {"file", "symlink", "dir"}
        THEN none
        ELSE IF KindOf(n) \in {"file", "symlink"}
        THEN IF dry_run THEN [none EXCEPT !.ok = TRUE, !.deleted = 1]
             ELSE IF p \in world.unlinkFail THEN [none EXCEPT !.errors = 1]
             ELSE [none EXCEPT !.ok = TRUE, !.gone = {p}, !.deleted = 1]
        ELSE IF p \in world.readdirFail THEN none
        ELSE IF ~sub.ok /\ ~continue_on_error THEN sub
        ELSE IF dry_run THEN [sub EXCEPT !.ok = TRUE, !.deleted = @ + 1]
        ELSE IF {PathOf[c] : c \in Entries(n)} \subseteq sub.gone
        THEN [sub EXCEPT !.ok = TRUE, !.gone = @ \cup {p}, !.deleted = @ + 1]
        ELSE [sub EXCEPT !.ok = FALSE, !.errors = @ + 1]

RmEntries(S) ==
    IF S = {} THEN [ok |-> TRUE, gone |-> {}, deleted |-> 0, errors |-> 0]
    ELSE LET c == CHOOSE x \in S : TRUE
             one == RmOutcome(c)
             rest == RmEntries(S \ {c})
         IN  [ok |-> one.ok /\ rest.ok,
              gone |-> one.gone \cup rest.gone,
              deleted |-> one.deleted + rest.deleted,
              errors |-> one.errors + rest.errors]

\* the outcome of the single-pool remover on the input roots
SinglePool == RmEntries(Roots)

\* the single-pool remover ends as RmOutcome says
SinglePoolOutcome ==
    exit_status # Running =>
        /\ exists = {p \in Paths : world.kind[p] # "none"} \ SinglePool.gone
        /\ deleted = SinglePool.deleted
        /\ errors = SinglePool.errors

\* C31: the two-pool pipeline ends with the objects left on disk and the
\* deleted and errors counts the single-pool remover ends with on the same
\* tree and flags.
C31_SameOutcome ==
    RunEnded =>
        /\ exists = {p \in Paths : world.kind[p] # "none"} \ SinglePool.gone
        /\ deleted = SinglePool.deleted
        /\ errors = SinglePool.errors

====
